---- MODULE Spec2Model ----
(***************************************************************************)
(* A model of fb-link-generator/app.py: the link store and its slug        *)
(* insertion, the visit handler (crawler / human / not found), and the     *)
(* ephemeral image registry with its expiry sweep, view and delete.        *)
(*                                                                         *)
(* Strings are sequences of Unicode code points, so that case folding,     *)
(* substring search, prefix tests, percent-decoding and character-range    *)
(* tests are computed the way the Python code computes them.               *)
(***************************************************************************)
EXTENDS Integers, Sequences, FiniteSets, TLC

VARIABLES
    links,      \* the rows of table links
    files,      \* the file names present in UPLOAD_DIR
    cproc,      \* per worker: the create request it is handling
    nCreates,   \* create requests started so far
    issued,     \* slug -> how many insertions returned it
    visit,      \* the last visit request and its response
    clock,      \* int(time.time())
    images,     \* the rows of table images
    iproc,      \* per worker: the image request it is handling
    nImages,    \* image ids generated so far
    nRequests,  \* image requests started so far
    denied      \* the files of UPLOAD_DIR whose removal the system refuses

vars == <<links, files, cproc, nCreates, issued, visit,
          clock, images, iproc, nImages, nRequests, denied>>

linkVars == <<links, cproc, nCreates, issued, visit>>
imageVars == <<clock, images, iproc, nImages, nRequests>>

--------------------------------------------------------------------------
(* Bounds of the model *)

\* create requests started in one behaviour
MaxCreates == 2
\* image uploads in one behaviour (each takes a fresh id)
MaxImages == 2
\* image requests (upload, view, delete, landing page) started in one behaviour
MaxRequests == 3
\* the clock stops advancing here
MaxClock == 120

Procs == {1, 2}

--------------------------------------------------------------------------
(* Strings *)

\* s.startswith(prefix)
StartsWith(s, prefix) ==
    /\ Len(prefix) <= Len(s)
    /\ SubSeq(s, 1, Len(prefix)) = prefix

\* needle in hay
Contains(hay, needle) ==
    \E i \in 0..(Len(hay) - Len(needle)) :
        SubSeq(hay, i + 1, i + Len(needle)) = needle

\* str.lower() of one character of a header value (headers are Latin-1)
LowerChar(c) ==
    IF (c \in 65..90) \/ (c \in 192..214) \/ (c \in 216..222) THEN c + 32 ELSE c

\* str.lower()
lower(s) == [i \in 1..Len(s) |-> LowerChar(s[i])]

--------------------------------------------------------------------------
(* The link store *)

\* string.ascii_letters + string.digits
SlugAlphabet == (97..122) \cup (65..90) \cup (48..57)

\* The draws of random.choices the model follows: each is the start of one
\* stream of characters over SlugAlphabet ("aZ09bQ..", "aZ09bR..", "q7Xk2m..").
RandomDraws ==
    { <<97, 90, 48, 57, 98, 81, 99, 49>>,
      <<97, 90, 48, 57, 98, 82, 99, 49>>,
      <<113, 55, 88, 107, 50, 109, 52, 84>> }

\* generate_slug(length): the values it may return
generate_slug(length) == { SubSeq(d, 1, length) : d \in RandomDraws }

\* the default of generate_slug's parameter
SlugLength == 6

\* the default of insert_link_with_unique_slug_v2's parameter attempts
attempts == 20

\* for _ in range(attempts), line 150: the loop has run attempt times and ends
budget_spent_one_late(attempt) == attempt >= 21
budget_spent(attempt) == attempt >= attempts

\* INSERT INTO links: the primary key slug rejects a second row of one slug
InsertAllowedNoKey(rows, row) == TRUE
InsertAllowed(rows, row) == \A r \in rows : r.slug # row.slug

\* SELECT * FROM links WHERE slug=? ; fetchone()
LinkRows(slug) == { r \in links : r.slug = slug }
Lookup(slug) == CHOOSE r \in LinkRows(slug) : TRUE

--------------------------------------------------------------------------
(* File names *)

\* str.isspace() for the ASCII characters
IsSpace(c) == c \in {32, 9, 10, 11, 12, 13}

RECURSIVE JoinWords(_, _, _, _)
\* "_".join(s.split()): out is the text so far, gap says that white space
\* was passed since the last character of out
JoinWords(s, i, out, gap) ==
    IF i > Len(s) THEN out
    ELSE IF IsSpace(s[i]) THEN JoinWords(s, i + 1, out, out # << >>)
    ELSE JoinWords(s, i + 1,
                   out \o (IF gap THEN <<95>> ELSE << >>) \o <<s[i]>>, FALSE)

\* a character that _filename_ascii_strip_re keeps: [A-Za-z0-9_.-]
IsFilenameChar(c) == (c \in SlugAlphabet) \/ (c \in {95, 46, 45})

RECURSIVE StripDotUnderscore(_)
\* s.strip("._")
StripDotUnderscore(s) ==
    IF s = << >> THEN s
    ELSE IF Head(s) \in {46, 95} THEN StripDotUnderscore(Tail(s))
    ELSE IF s[Len(s)] \in {46, 95}
         THEN StripDotUnderscore(SubSeq(s, 1, Len(s) - 1))
    ELSE s

\* werkzeug.utils.secure_filename on a POSIX host: non-ASCII characters are
\* dropped (the NFKD decomposition of a non-ASCII letter is not followed),
\* "/" becomes a space, white space runs become "_", only [A-Za-z0-9_.-]
\* is kept, and dots and underscores are stripped from both ends.
secure_filename(name) ==
    LET ascii == SelectSeq(name, LAMBDA c : c < 128)
        nosep == [i \in 1..Len(ascii) |-> IF ascii[i] = 47 THEN 32 ELSE ascii[i]]
        joined == JoinWords(nosep, 1, << >>, FALSE)
    IN  StripDotUnderscore(SelectSeq(joined, IsFilenameChar))

\* the index of the last "." of name, 0 when there is none
LastDot(name) ==
    IF \E i \in 1..Len(name) : name[i] = 46
    THEN CHOOSE i \in 1..Len(name) :
            /\ name[i] = 46
            /\ \A j \in (i + 1)..Len(name) : name[j] # 46
    ELSE 0

\* os.path.splitext(name)[1] for a name without directory part: the text from
\* the last dot on, unless only dots precede that dot
splitext_ext(name) ==
    LET d == LastDot(name)
    IN  IF d > 0 /\ (\E j \in 1..(d - 1) : name[j] # 46)
        THEN SubSeq(name, d, Len(name))
        ELSE << >>

\* ALLOWED_IMAGE_EXTENSIONS: .png .jpg .jpeg .webp .gif
ALLOWED_IMAGE_EXTENSIONS ==
    { <<46, 112, 110, 103>>, <<46, 106, 112, 103>>, <<46, 106, 112, 101, 103>>, <<46, 119, 101, 98, 112>>, <<46, 103, 105, 102>> }

\* _is_allowed_image_filename(filename)
is_allowed_image_filename(filename) ==
    lower(splitext_ext(filename)) \in ALLOWED_IMAGE_EXTENSIONS

\* "image/"
ImagePrefix == <<105, 109, 97, 103, 101, 47>>

\* The two checks that open _save_uploaded_image and
\* _save_uploaded_image_for_image_host: TRUE when neither raises ValueError
upload_is_valid(file) ==
    LET filename == secure_filename(file.filename)
    IN  /\ filename # << >>
        /\ is_allowed_image_filename(filename)
        /\ file.mimetype # << >>
        /\ StartsWith(file.mimetype, ImagePrefix)

\* saved_name = f"{stem}{ext.lower()}"
saved_name(stem, file) == stem \o lower(splitext_ext(secure_filename(file.filename)))

\* request.host_url ("http://h/") and the static path of the upload directory
HostUrl == <<104, 116, 116, 112, 58, 47, 47, 104, 47>>
UploadsPath == <<115, 116, 97, 116, 105, 99, 47, 117, 112, 108, 111, 97, 100, 115, 47>>

\* url_for('static', filename=f"uploads/{saved_name}", _external=True)
static_url(name) == HostUrl \o UploadsPath \o name

--------------------------------------------------------------------------
(* POST /create *)

\* No uploaded file: request.files.get('img_file') is None
NoFile == [filename |-> << >>, mimetype |-> << >>]

\* The create requests the model submits.  Strings: dest_url "http://d",
\* title "t", img_url "http://i" (absolute), "/r" (site-relative), "r" (bare),
\* "" (none);
\* files "a.png" (image/png), "a.txt" (text/plain), "B.JPG" (text/plain).
CreateRequests ==
    { [dest_url |-> <<104, 116, 116, 112, 58, 47, 47, 100>>, title |-> <<116>>, img_url |-> <<104, 116, 116, 112, 58, 47, 47, 105>>,
       img_file |-> NoFile],
      [dest_url |-> <<104, 116, 116, 112, 58, 47, 47, 100>>, title |-> <<116>>, img_url |-> << >>,
       img_file |-> [filename |-> <<97, 46, 112, 110, 103>>, mimetype |-> <<105, 109, 97, 103, 101, 47, 112, 110, 103>>]],
      [dest_url |-> <<104, 116, 116, 112, 58, 47, 47, 100>>, title |-> <<116>>, img_url |-> <<47, 114>>,
       img_file |-> [filename |-> <<97, 46, 116, 120, 116>>, mimetype |-> <<116, 101, 120, 116, 47, 112, 108, 97, 105, 110>>]],
      [dest_url |-> <<104, 116, 116, 112, 58, 47, 47, 101>>, title |-> <<116>>, img_url |-> <<114>>,
       img_file |-> [filename |-> <<66, 46, 74, 80, 71>>, mimetype |-> <<116, 101, 120, 116, 47, 112, 108, 97, 105, 110>>]],
      [dest_url |-> << >>, title |-> <<116>>, img_url |-> <<104, 116, 116, 112, 58, 47, 47, 105>>,
       img_file |-> NoFile],
      [dest_url |-> <<104, 116, 116, 112, 58, 47, 47, 100>>, title |-> <<116>>, img_url |-> << >>,
       img_file |-> NoFile],
      [dest_url |-> <<104, 116, 116, 112, 58, 47, 47, 100>>, title |-> <<116>>, img_url |-> << >>,
       img_file |-> [filename |-> <<97, 46, 116, 120, 116>>, mimetype |-> <<116, 101, 120, 116, 47, 112, 108, 97, 105, 110>>]] }

\* img_file and getattr(img_file, 'filename', '')
HasFile(r) == r.img_file.filename # << >>

\* A worker that handles no create request
IdleCreate ==
    [pc |-> "idle", req |-> [dest_url |-> << >>, title |-> << >>,
                             img_url |-> << >>, img_file |-> NoFile],
     attempt |-> 0, slug |-> << >>, status |-> 0, wrote |-> FALSE]

\* one more insertion returned slug s
Issue(s) ==
    IF s \in DOMAIN issued THEN [issued EXCEPT ![s] = @ + 1]
    ELSE (s :> 1) @@ issued

\* create(), lines 655-683: read the form and validate it
CreateBegin(p, r) ==
    /\ cproc[p].pc = "idle"
    /\ nCreates < MaxCreates
    /\ nCreates' = nCreates + 1
    /\ IF (r.dest_url = << >>) \/ (r.title = << >>)
       THEN cproc' = [cproc EXCEPT ![p] =
                        [IdleCreate EXCEPT !.pc = "done", !.req = r, !.status = 400]]
       ELSE IF (r.img_url = << >>) /\ ~HasFile(r)
       THEN cproc' = [cproc EXCEPT ![p] =
                        [IdleCreate EXCEPT !.pc = "done", !.req = r, !.status = 400]]
       ELSE cproc' = [cproc EXCEPT ![p] =
                        [IdleCreate EXCEPT !.pc = "insert", !.req = r]]
    /\ UNCHANGED <<links, files, issued, visit, imageVars, denied>>

\* insert_link_with_unique_slug_v2, one pass of the loop (lines 151-161): a
\* candidate slug, the INSERT and its commit, or the IntegrityError
InsertAttempt(p) ==
    /\ cproc[p].pc = "insert"
    /\ ~budget_spent(cproc[p].attempt)
    /\ \E slug \in generate_slug(SlugLength) :
         LET r == cproc[p].req
             row == [slug |-> slug, dest_url |-> r.dest_url,
                     img_url |-> r.img_url, title |-> r.title]
         IN  IF InsertAllowed(links, row)
             THEN /\ links' = links \cup {row}
                  /\ issued' = Issue(slug)
                  /\ cproc' = [cproc EXCEPT ![p].pc = "inserted",
                                            ![p].attempt = @ + 1,
                                            ![p].slug = slug,
                                            ![p].wrote = TRUE]
             ELSE /\ cproc' = [cproc EXCEPT ![p].attempt = @ + 1]
                  /\ UNCHANGED <<links, issued>>
    /\ UNCHANGED <<files, nCreates, visit, imageVars, denied>>

\* insert_link_with_unique_slug_v2, line 162: the loop ended without an
\* insertion; RuntimeError leaves create() uncaught and Flask answers 500
InsertExhausted(p) ==
    /\ cproc[p].pc = "insert"
    /\ budget_spent(cproc[p].attempt)
    /\ cproc' = [cproc EXCEPT ![p].pc = "done", ![p].status = 500]
    /\ UNCHANGED <<links, files, nCreates, issued, visit, imageVars, denied>>

\* create(), lines 696-704 and 712-723: without a file the result page is
\* rendered; with one, _save_uploaded_image validates and saves it
CreateSave(p) ==
    /\ cproc[p].pc = "inserted"
    /\ LET r == cproc[p].req
       IN  IF ~HasFile(r)
           THEN /\ cproc' = [cproc EXCEPT ![p].pc = "done", ![p].status = 200]
                /\ UNCHANGED files
           ELSE IF ~upload_is_valid(r.img_file)
           THEN /\ cproc' = [cproc EXCEPT ![p].pc = "done", ![p].status = 400]
                /\ UNCHANGED files
           ELSE /\ files' = files \cup {saved_name(cproc[p].slug, r.img_file)}
                /\ cproc' = [cproc EXCEPT ![p].pc = "saved"]
    /\ UNCHANGED <<links, nCreates, issued, visit, imageVars, denied>>

\* UPDATE links SET img_url=? without the WHERE clause
UpdateImgUrlOfAll(rows, slug, url) == { [r EXCEPT !.img_url = url] : r \in rows }

\* UPDATE links SET img_url=? WHERE slug=?
UpdateImgUrl(rows, slug, url) ==
    { IF r.slug = slug THEN [r EXCEPT !.img_url = url] ELSE r : r \in rows }

\* create(), lines 706-723: store the saved file's URL, render the result
CreateUpdate(p) ==
    /\ cproc[p].pc = "saved"
    /\ links' = UpdateImgUrl(links, cproc[p].slug,
                             static_url(saved_name(cproc[p].slug, cproc[p].req.img_file)))
    /\ cproc' = [cproc EXCEPT ![p].pc = "done", ![p].status = 200]
    /\ UNCHANGED <<files, nCreates, issued, visit, imageVars, denied>>

\* the response is sent and the worker is free again
CreateEnd(p) ==
    /\ cproc[p].pc = "done"
    /\ cproc' = [cproc EXCEPT ![p] = IdleCreate]
    /\ UNCHANGED <<links, files, nCreates, issued, visit, imageVars, denied>>

Create(p) ==
    \/ \E r \in CreateRequests : CreateBegin(p, r)
    \/ InsertAttempt(p)
    \/ InsertExhausted(p)
    \/ CreateSave(p)
    \/ CreateUpdate(p)
    \/ CreateEnd(p)

--------------------------------------------------------------------------
(* urllib.parse.unquote *)

\* the value of a hexadecimal digit, -1 for any other character
HexVal(c) ==
    IF c \in 48..57 THEN c - 48
    ELSE IF c \in 65..70 THEN c - 55
    ELSE IF c \in 97..102 THEN c - 87
    ELSE -1

RECURSIVE PercentItems(_, _)
\* unquote's first pass from position i on: an ASCII character or a %XX
\* escape becomes the byte b (written b), a non-ASCII character c is kept
\* as it is (written -c); a "%" that no two hex digits follow stays a "%"
PercentItems(s, i) ==
    IF i > Len(s) THEN << >>
    ELSE IF s[i] >= 128 THEN << -s[i] >> \o PercentItems(s, i + 1)
    ELSE IF /\ s[i] = 37
            /\ i + 2 <= Len(s)
            /\ HexVal(s[i + 1]) >= 0
            /\ HexVal(s[i + 2]) >= 0
         THEN << 16 * HexVal(s[i + 1]) + HexVal(s[i + 2]) >>
              \o PercentItems(s, i + 3)
    ELSE << s[i] >> \o PercentItems(s, i + 1)

\* a UTF-8 continuation byte
IsCont(items, i) == i <= Len(items) /\ items[i] \in 128..191

RECURSIVE Utf8Decode(_, _)
\* bytes.decode('utf-8', 'replace') of the bytes from position i on; a byte
\* that starts no well-formed sequence becomes U+FFFD
Utf8Decode(items, i) ==
    IF i > Len(items) THEN << >>
    ELSE LET b == items[i]
         IN  IF b < 0 THEN << -b >> \o Utf8Decode(items, i + 1)
             ELSE IF b < 128 THEN << b >> \o Utf8Decode(items, i + 1)
             ELSE IF b \in 194..223 /\ IsCont(items, i + 1)
                  THEN << (b - 192) * 64 + (items[i + 1] - 128) >>
                       \o Utf8Decode(items, i + 2)
             ELSE IF /\ b \in 224..239
                     /\ IsCont(items, i + 1)
                     /\ IsCont(items, i + 2)
                     /\ (b = 224 => items[i + 1] >= 160)
                     /\ (b = 237 => items[i + 1] <= 159)
                  THEN << (b - 224) * 4096 + (items[i + 1] - 128) * 64
                          + (items[i + 2] - 128) >>
                       \o Utf8Decode(items, i + 3)
             ELSE IF /\ b \in 240..244
                     /\ IsCont(items, i + 1)
                     /\ IsCont(items, i + 2)
                     /\ IsCont(items, i + 3)
                     /\ (b = 240 => items[i + 1] >= 144)
                     /\ (b = 244 => items[i + 1] <= 143)
                  THEN << (b - 240) * 262144 + (items[i + 1] - 128) * 4096
                          + (items[i + 2] - 128) * 64 + (items[i + 3] - 128) >>
                       \o Utf8Decode(items, i + 4)
             ELSE << 65533 >> \o Utf8Decode(items, i + 1)

\* urllib.parse.unquote(path)
unquote(s) == Utf8Decode(PercentItems(s, 1), 1)

--------------------------------------------------------------------------
(* GET /<slug> and the 404 handler *)

\* The signatures of redirect_handler's list (lines 741-749):
\* facebookexternalhit, facebot, meta-externalagent, meta-externalfetcher,
\* twitterbot, linkedinbot, slackbot, whatsapp, telegrambot
BotSignatures ==
    { <<102, 97, 99, 101, 98, 111, 111, 107, 101, 120, 116, 101, 114, 110, 97, 108, 104, 105, 116>>, <<102, 97, 99, 101, 98, 111, 116>>, <<109, 101, 116, 97, 45, 101, 120, 116, 101, 114, 110, 97, 108, 97, 103, 101, 110, 116>>,
      <<109, 101, 116, 97, 45, 101, 120, 116, 101, 114, 110, 97, 108, 102, 101, 116, 99, 104, 101, 114>>, <<116, 119, 105, 116, 116, 101, 114, 98, 111, 116>>, <<108, 105, 110, 107, 101, 100, 105, 110, 98, 111, 116>>, <<115, 108, 97, 99, 107, 98, 111, 116>>,
      <<119, 104, 97, 116, 115, 97, 112, 112>>, <<116, 101, 108, 101, 103, 114, 97, 109, 98, 111, 116>> }

\* request.headers.get('User-Agent', '')
HeaderOrEmpty(h) == IF h.present THEN h.value ELSE << >>

\* user_agent: the header in the form the signatures are searched in
user_agent_as_sent(h) == HeaderOrEmpty(h)
user_agent(h) == lower(HeaderOrEmpty(h))

\* is_bot (lines 738-751)
is_bot(h) == \E bot \in BotSignatures : Contains(user_agent(h), bot)

\* url_for('upload_page')
UploadPageUrl == <<47, 117, 112, 108, 111, 97, 100>>

\* "%e0%b8"
ThaiEscapePrefix == <<37, 101, 48, 37, 98, 56>>

\* handle_not_found (lines 76-88): the answer to a NotFound exception
handle_not_found(path) ==
    LET decoded == unquote(path)
        has_thai == \E i \in 1..Len(decoded) : decoded[i] \in 3584..3711
    IN  IF has_thai \/ Contains(lower(path), ThaiEscapePrefix)
        THEN [status |-> 302, location |-> UploadPageUrl,
              handler |-> "handle_not_found", img |-> << >>]
        ELSE [status |-> 404, location |-> << >>,
              handler |-> "handle_not_found", img |-> << >>]

\* "http://" and "https://"
HttpPrefix == <<104, 116, 116, 112, 58, 47, 47>>
HttpsPrefix == <<104, 116, 116, 112, 115, 58, 47, 47>>

\* f"{request.scheme}://{request.host}" of a request to HostUrl: "http://h"
SchemeAndHost == <<104, 116, 116, 112, 58, 47, 47, 104>>

RECURSIVE lstrip_slash(_)
\* s.lstrip('/')
lstrip_slash(s) ==
    IF s # << >> /\ Head(s) = 47 THEN lstrip_slash(Tail(s)) ELSE s

RECURSIVE rstrip_slash(_)
\* s.rstrip('/')
rstrip_slash(s) ==
    IF s # << >> /\ s[Len(s)] = 47
    THEN rstrip_slash(SubSeq(s, 1, Len(s) - 1))
    ELSE s

\* redirect_handler, lines 755-761: the image URL of the metadata page
meta_image(img_url) ==
    IF img_url # << >> /\ ~StartsWith(img_url, HttpPrefix)
                       /\ ~StartsWith(img_url, HttpsPrefix)
    THEN IF StartsWith(img_url, <<47>>)
         THEN SchemeAndHost \o img_url
         ELSE rstrip_slash(HostUrl) \o <<47>> \o lstrip_slash(img_url)
    ELSE img_url

\* redirect_handler (lines 726-799): the metadata page for a crawler, a 302 to
\* dest_url for anyone else, and the pair ('Link not found', 404) as an
\* ordinary return value when no row has the slug
redirect_handler(slug, h, path) ==
    IF LinkRows(slug) # {}
    THEN IF is_bot(h)
         THEN [status |-> 200, location |-> << >>, handler |-> "meta",
               img |-> meta_image(Lookup(slug).img_url)]
         ELSE [status |-> 302, location |-> Lookup(slug).dest_url,
               handler |-> "redirect", img |-> << >>]
    ELSE [status |-> 404, location |-> << >>, handler |-> "redirect_handler",
          img |-> << >>]

\* The rule '/<slug>' (line 726): one non-empty segment without "/"
MatchesSlugRule(path) ==
    /\ Len(path) >= 2
    /\ path[1] = 47
    /\ \A i \in 2..Len(path) : path[i] # 47

\* Flask's dispatch of a GET whose path is none of the fixed routes: the
\* view of the matching rule answers; without a matching rule the router
\* raises NotFound, which the handler registered for 404 answers.  A view's
\* return value is the response as it stands, whatever its status.
Dispatch(path, h) ==
    IF MatchesSlugRule(path)
    THEN redirect_handler(SubSeq(path, 2, Len(path)), h, path)
    ELSE handle_not_found(path)

\* The User-Agent headers the model sends: none, "Mozilla/5.0", "faceboo",
\* "facebookexternalhit/1.1", "FaceBot/1.0", "curl WhatsApp/2"
UserAgents ==
    { [present |-> FALSE, value |-> << >>],
      [present |-> TRUE, value |-> <<77, 111, 122, 105, 108, 108, 97, 47, 53, 46, 48>>],
      [present |-> TRUE, value |-> <<102, 97, 99, 101, 98, 111, 111>>],
      [present |-> TRUE, value |-> <<102, 97, 99, 101, 98, 111, 111, 107, 101, 120, 116, 101, 114, 110, 97, 108, 104, 105, 116, 47, 49, 46, 49>>],
      [present |-> TRUE, value |-> <<70, 97, 99, 101, 66, 111, 116, 47, 49, 46, 48>>],
      [present |-> TRUE, value |-> <<99, 117, 114, 108, 32, 87, 104, 97, 116, 115, 65, 112, 112, 47, 50>>] }

\* The request paths (request.path, decoded once by the server) the model
\* visits besides the slugs: "/zzzzzz", "/" + U+0E01, "/" + U+0E7F,
\* "/" + U+0E80, "/%e0%b8%81" (sent doubly encoded), "/a/b",
\* "/" + U+0E01 + "/x"
ProbePaths ==
    { <<47, 122, 122, 122, 122, 122, 122>>, <<47, 3585>>, <<47, 3711>>,
      <<47, 3712>>, <<47, 37, 101, 48, 37, 98, 56, 37, 56, 49>>,
      <<47, 97, 47, 98>>, <<47, 3585, 47, 120>> }

VisitPaths == ProbePaths \cup { <<47>> \o s : s \in generate_slug(SlugLength) }

NoVisit ==
    [path |-> << >>, ua |-> [present |-> FALSE, value |-> << >>],
     status |-> 0, location |-> << >>, handler |-> "none", found |-> FALSE,
     img |-> << >>]

\* One GET request, answered in one step: the handler's only access to the
\* store is one SELECT.  found records whether the store held the slug, img
\* is the image URL of the metadata page.
Visit ==
    \E path \in VisitPaths, h \in UserAgents :
        /\ visit = NoVisit
        /\ visit' = [path |-> path, ua |-> h,
                     status |-> Dispatch(path, h).status,
                     location |-> Dispatch(path, h).location,
                     handler |-> Dispatch(path, h).handler,
                     img |-> Dispatch(path, h).img,
                     found |-> /\ MatchesSlugRule(path)
                               /\ LinkRows(SubSeq(path, 2, Len(path))) # {}]
        /\ UNCHANGED <<links, files, cproc, nCreates, issued, imageVars, denied>>

\* the response is sent
VisitEnd ==
    /\ visit # NoVisit
    /\ visit' = NoVisit
    /\ UNCHANGED <<links, files, cproc, nCreates, issued, imageVars, denied>>

--------------------------------------------------------------------------
(* The image registry: rows, clock, expiry *)

\* expires_at IS NULL (None): the image never expires
NoExpiry == -1

\* the seconds in one of expiry_minutes (line 546)
SecondsPerMinute == 60

\* what one step of the clock adds to int(time.time())
TickStep == 60

\* uuid.uuid4().hex of the n-th upload: "i1", "i2", ... (never repeated)
ImageId(n) == <<105, 48 + n>>

\* secrets.token_urlsafe(24) of the n-th upload: "t1", "t2", ...
DeleteToken(n) == <<116, 48 + n>>

\* SELECT ... FROM images WHERE id=?
ImageRows(id) == { r \in images : r.id = id }

\* the row of a lookup that found none
NoRow ==
    [found |-> FALSE, filename |-> << >>, delete_token |-> << >>,
     expires_at |-> NoExpiry]

\* c.fetchone() of a lookup by id
FetchImage(id) ==
    IF ImageRows(id) = {} THEN NoRow
    ELSE LET r == CHOOSE x \in ImageRows(id) : TRUE
         IN  [found |-> TRUE, filename |-> r.filename,
              delete_token |-> r.delete_token, expires_at |-> r.expires_at]

\* WHERE expires_at IS NOT NULL, without the comparison with now
IsSweptAtAny(expires_at, now) == expires_at # NoExpiry

\* WHERE expires_at IS NOT NULL AND expires_at <= now (line 193)
IsSweptAt(expires_at, now) == expires_at # NoExpiry /\ expires_at <= now

RECURSIVE RowsInOrder(_)
\* the rows of a set as fetchall() lists them: by id, the order of insertion
RowsInOrder(rs) ==
    IF rs = {} THEN << >>
    ELSE LET first == CHOOSE r \in rs : \A o \in rs : r.id[2] <= o.id[2]
         IN  << [id |-> first.id, filename |-> first.filename] >>
             \o RowsInOrder(rs \ {first})

\* _cleanup_expired_images, lines 190-194: the rows the sweep will remove
ExpiredRows(now) == RowsInOrder({ r \in images : IsSweptAt(r.expires_at, now) })

\* _is_image_not_expired(expires_at) at time now (lines 205-206)
is_image_not_expired(expires_at, now) ==
    (expires_at = NoExpiry) \/ (expires_at > now)

\* the test of line 628: the row has expired
DeleteSeesExpired(expires_at, now) == expires_at # NoExpiry /\ expires_at <= now

--------------------------------------------------------------------------
(* int() *)

RECURSIVE StripSpace(_)
\* s.strip() for ASCII white space
StripSpace(s) ==
    IF s = << >> THEN s
    ELSE IF IsSpace(Head(s)) THEN StripSpace(Tail(s))
    ELSE IF IsSpace(s[Len(s)]) THEN StripSpace(SubSeq(s, 1, Len(s) - 1))
    ELSE s

RECURSIVE DigitsValue(_, _)
\* the value of the decimal digits d[1..n]
DigitsValue(d, n) ==
    IF n = 0 THEN 0 ELSE 10 * DigitsValue(d, n - 1) + (d[n] - 48)

\* int(s) of a form field: white space around, an optional sign, decimal
\* digits with single underscores between them; ok is FALSE for ValueError
ParseInt(s) ==
    LET t == StripSpace(s)
        signed == t # << >> /\ Head(t) \in {43, 45}
        body == IF signed THEN Tail(t) ELSE t
        digits == SelectSeq(body, LAMBDA c : c # 95)
        wellFormed ==
            /\ body # << >>
            /\ \A i \in 1..Len(body) : body[i] \in (48..57) \cup {95}
            /\ body[1] # 95
            /\ body[Len(body)] # 95
            /\ \A i \in 1..(Len(body) - 1) : ~(body[i] = 95 /\ body[i + 1] = 95)
    IN  IF wellFormed
        THEN [ok |-> TRUE,
              value |-> IF signed /\ Head(t) = 45
                        THEN 0 - DigitsValue(digits, Len(digits))
                        ELSE DigitsValue(digits, Len(digits))]
        ELSE [ok |-> FALSE, value |-> 0]

--------------------------------------------------------------------------
(* Python floats and long integers *)

RECURSIVE Pow2(_)
\* 2 ** k
Pow2(k) == IF k = 0 THEN 1 ELSE 2 * Pow2(k - 1)

\* A positive double is [head, limbs, exp]: it stands for the number
\* (head + limbs[1] / Limb + ... + limbs[4] / Limb ** 4) * 2 ** exp, whose
\* significand has 53 bits: the bit of a head of 1 and the 52 bits of the four
\* limbs.
LimbBits == 13

Limb == Pow2(LimbBits)

SignificandLimbs == 4

RECURSIVE BitLength(_)
\* n.bit_length()
BitLength(n) == IF n = 0 THEN 0 ELSE 1 + BitLength(n \div 2)

RECURSIVE BinaryExponent(_, _)
\* the e with 2 ** e <= a / b < 2 ** (e + 1), for a, b > 0
BinaryExponent(a, b) ==
    IF a >= b
    THEN IF a >= 2 * b THEN 1 + BinaryExponent(a, 2 * b) ELSE 0
    ELSE BinaryExponent(2 * a, b) - 1

RECURSIVE QuotientLimbs(_, _, _)
\* the next n limbs of the expansion of r / den, for 0 <= r < den, and the
\* remainder they leave
QuotientLimbs(r, den, n) ==
    IF n = 0 THEN [limbs |-> << >>, rem |-> r]
    ELSE LET rest == QuotientLimbs((r * Limb) % den, den, n - 1)
         IN  [limbs |-> <<(r * Limb) \div den>> \o rest.limbs, rem |-> rest.rem]

RECURSIVE AddToLimbs(_, _)
\* limbs + k units of the last limb, for k <= Limb, and the carry out of the
\* first limb
AddToLimbs(limbs, k) ==
    IF limbs = << >> THEN [limbs |-> << >>, carry |-> k]
    ELSE LET n == Len(limbs)
             t == limbs[n] + k
             rest == AddToLimbs(SubSeq(limbs, 1, n - 1), t \div Limb)
         IN  [limbs |-> Append(rest.limbs, t % Limb), carry |-> rest.carry]

\* a / b of two positive ints: the double nearest to the quotient, a tie going
\* to the even significand
float_div(a, b) ==
    LET e == BinaryExponent(a, b)
        num == IF e >= 0 THEN a ELSE a * Pow2(0 - e)
        den == IF e >= 0 THEN b * Pow2(e) ELSE b
        q == QuotientLimbs(num - den, den, SignificandLimbs)
        up == \/ 2 * q.rem > den
              \/ 2 * q.rem = den /\ q.limbs[SignificandLimbs] % 2 = 1
        sum == AddToLimbs(q.limbs, IF up THEN 1 ELSE 0)
    IN  IF sum.carry = 1
        THEN [head |-> 1, limbs |-> sum.limbs, exp |-> e + 1]
        ELSE [head |-> 1, limbs |-> sum.limbs, exp |-> e]

RECURSIVE MulLimbs(_, _)
\* n * limbs, and the carry out of the first limb
MulLimbs(limbs, n) ==
    IF limbs = << >> THEN [limbs |-> << >>, carry |-> 0]
    ELSE LET rest == MulLimbs(Tail(limbs), n)
             t == Head(limbs) * n + rest.carry
         IN  [limbs |-> <<t % Limb>> \o rest.limbs, carry |-> t \div Limb]

\* n * x of a positive int below Limb and a positive double: the double nearest
\* to the product, a tie going to the even significand.  The product has
\* cut bits more than a significand holds; they are the low bits of its last
\* limb.
float_mul(n, x) ==
    LET p == MulLimbs(x.limbs, n)
        head == x.head * n + p.carry
        cut == BitLength(head) - 1
        last == p.limbs[SignificandLimbs]
        low == last % Pow2(cut)
        keptOdd == IF cut < LimbBits THEN (last \div Pow2(cut)) % 2 = 1
                   ELSE p.limbs[SignificandLimbs - 1] % 2 = 1
        up == /\ cut >= 1
              /\ \/ 2 * low > Pow2(cut)
                 \/ 2 * low = Pow2(cut) /\ keptOdd
        kept == [p.limbs EXCEPT ![SignificandLimbs] = last - low]
        sum == AddToLimbs(kept, IF up THEN Pow2(cut) ELSE 0)
    IN  [head |-> head + sum.carry, limbs |-> sum.limbs, exp |-> x.exp]

\* int(x) of a positive double below 2 ** 31 with an exponent of at most
\* LimbBits
int_of_float(x) ==
    IF x.exp <= 0 THEN x.head \div Pow2(0 - x.exp)
    ELSE x.head * Pow2(x.exp) + x.limbs[1] \div Pow2(LimbBits - x.exp)

\* the decimal digits of 2 ** 1024 - 2 ** 970, the least int whose conversion
\* to float raises OverflowError
FloatOverflowDigits ==
    << 49, 55, 57, 55, 54, 57, 51, 49, 51, 52, 56, 54, 50, 51, 49, 53, 56, 48,
       55, 57, 51, 55, 50, 56, 57, 55, 49, 52, 48, 53, 51, 48, 51, 52, 49, 53,
       48, 55, 57, 57, 51, 52, 49, 51, 50, 55, 49, 48, 48, 51, 55, 56, 50, 54,
       57, 51, 54, 49, 55, 51, 55, 55, 56, 57, 56, 48, 52, 52, 52, 57, 54, 56,
       50, 57, 50, 55, 54, 52, 55, 53, 48, 57, 52, 54, 54, 52, 57, 48, 49, 55,
       57, 55, 55, 53, 56, 55, 50, 48, 55, 48, 57, 54, 51, 51, 48, 50, 56, 54,
       52, 49, 54, 54, 57, 50, 56, 56, 55, 57, 49, 48, 57, 52, 54, 53, 53, 53,
       53, 52, 55, 56, 53, 49, 57, 52, 48, 52, 48, 50, 54, 51, 48, 54, 53, 55,
       52, 56, 56, 54, 55, 49, 53, 48, 53, 56, 50, 48, 54, 56, 49, 57, 48, 56,
       57, 48, 50, 48, 48, 48, 55, 48, 56, 51, 56, 51, 54, 55, 54, 50, 55, 51,
       56, 53, 52, 56, 52, 53, 56, 49, 55, 55, 49, 49, 53, 51, 49, 55, 54, 52,
       52, 55, 53, 55, 51, 48, 50, 55, 48, 48, 54, 57, 56, 53, 53, 53, 55, 49,
       51, 54, 54, 57, 53, 57, 54, 50, 50, 56, 52, 50, 57, 49, 52, 56, 49, 57,
       56, 54, 48, 56, 51, 52, 57, 51, 54, 52, 55, 53, 50, 57, 50, 55, 49, 57,
       48, 55, 52, 49, 54, 56, 52, 52, 52, 51, 54, 53, 53, 49, 48, 55, 48, 52,
       51, 52, 50, 55, 49, 49, 53, 53, 57, 54, 57, 57, 53, 48, 56, 48, 57, 51,
       48, 52, 50, 56, 56, 48, 49, 55, 55, 57, 48, 52, 49, 55, 52, 52, 57, 55,
       55, 57, 50 >>

RECURSIVE StripZeros(_)
\* a digit string without its leading zeros
StripZeros(d) == IF d # << >> /\ Head(d) = 48 THEN StripZeros(Tail(d)) ELSE d

\* a >= b for two digit strings of one length
DigitsAtLeast(a, b) ==
    \/ a = b
    \/ \E i \in 1..Len(a) : a[i] > b[i] /\ \A j \in 1..(i - 1) : a[j] = b[j]

\* the longest digit string whose value the model computes
SmallDigits == 9

\* int(s) of a form field for an int of any length: ok is FALSE for
\* ValueError; digits are the decimal digits of the absolute value without
\* leading zeros, small tells that value holds the int
ParseLongInt(s) ==
    LET t == StripSpace(s)
        signed == t # << >> /\ Head(t) \in {43, 45}
        body == IF signed THEN Tail(t) ELSE t
        digits == StripZeros(SelectSeq(body, LAMBDA c : c # 95))
        negative == signed /\ Head(t) = 45
        wellFormed ==
            /\ body # << >>
            /\ \A i \in 1..Len(body) : body[i] \in (48..57) \cup {95}
            /\ body[1] # 95
            /\ body[Len(body)] # 95
            /\ \A i \in 1..(Len(body) - 1) : ~(body[i] = 95 /\ body[i + 1] = 95)
    IN  IF ~wellFormed
        THEN [ok |-> FALSE, negative |-> FALSE, digits |-> << >>,
              small |-> FALSE, value |-> 0]
        ELSE [ok |-> TRUE, negative |-> negative, digits |-> digits,
              small |-> Len(digits) <= SmallDigits,
              value |-> IF Len(digits) > SmallDigits THEN 0
                        ELSE IF negative THEN 0 - DigitsValue(digits, Len(digits))
                        ELSE DigitsValue(digits, Len(digits))]

\* float(n) of a long int raises OverflowError
float_overflows(n) ==
    \/ Len(n.digits) > Len(FloatOverflowDigits)
    \/ /\ Len(n.digits) = Len(FloatOverflowDigits)
       /\ DigitsAtLeast(n.digits, FloatOverflowDigits)

--------------------------------------------------------------------------
(* Files of the upload directory *)

\* os.remove(path): the directory afterwards, and the exception raised.  The
\* removal of a file in denied is refused with PermissionError.
os_remove(fs, name) ==
    IF name \notin fs THEN [files |-> fs, raised |-> "FileNotFoundError"]
    ELSE IF name \in denied THEN [files |-> fs, raised |-> "PermissionError"]
    ELSE [files |-> fs \ {name}, raised |-> "none"]

\* try: os.remove(...) except FileNotFoundError: pass
\* (lines 196-199, and again 632-635 and 645-648)
remove_uncaught(fs, name) == os_remove(fs, name)
remove_ignoring_missing(fs, name) ==
    LET r == os_remove(fs, name)
    IN  [files |-> r.files,
         raised |-> IF r.raised = "FileNotFoundError" THEN "none" ELSE r.raised]

--------------------------------------------------------------------------
(* Card normalization *)

target_w == 1200
target_h == 628

\* What an uploaded file holds: a picture of w x h pixels in a Pillow mode;
\* readable is FALSE for bytes Image.open cannot identify.
Picture(w, h, mode, readable) == [w |-> w, h |-> h, mode |-> mode, readable |-> readable]

\* the picture the forms of the registry's own requests carry
PlainImage == Picture(target_w, target_h, "RGB", TRUE)

\* api_upload, lines 553-559: the form field offset_y; without the field, and
\* for a field int() refuses, there is no offset
upload_offset(raw) ==
    IF raw = << >> \/ ~ParseLongInt(raw).ok
    THEN [given |-> FALSE, oy |-> ParseLongInt(<<48>>)]
    ELSE [given |-> TRUE, oy |-> ParseLongInt(raw)]

\* line 240: int(w * (new_h / h)), in doubles
scaled_width(w, h) == int_of_float(float_mul(w, float_div(target_h, h)))

\* int(w / 1.91) without the clamp of lines 253-254
crop_height_unclamped(w, h) == (100 * w) \div 191

\* lines 252-254: int(w / 1.91), at most h.  For every w up to 30000 the
\* double w / 1.91 has the integer part of the exact quotient 100 * w / 191.
crop_height(w, h) ==
    LET target_h_crop == (100 * w) \div 191
    IN  IF target_h_crop > h THEN h ELSE target_h_crop

\* (h - target_h_crop) // 2 of lines 266 and 269
centred_top(h, target_h_crop) == (h - target_h_crop) \div 2

\* lines 257-269: the top of the crop window.  h / 2 - oy raises
\* OverflowError for an oy no double holds, and the bare except centres the
\* window; an oy of more than SmallDigits digits puts center_y far outside
\* the source, so that the clamp decides; else center_y - target_h_crop / 2
\* is half of h - 2 * oy - target_h_crop, and int() cuts it towards zero.
crop_top(h, target_h_crop, offset) ==
    LET oy == offset.oy
        twice == h - 2 * oy.value - target_h_crop
        top == IF twice >= 0 THEN twice \div 2 ELSE 0 - ((0 - twice) \div 2)
        lowest == h - target_h_crop
    IN  IF ~offset.given THEN centred_top(h, target_h_crop)
        ELSE IF float_overflows(oy) THEN centred_top(h, target_h_crop)
        ELSE IF ~oy.small THEN (IF oy.negative THEN lowest ELSE 0)
        ELSE IF top > lowest THEN lowest
        ELSE IF top < 0 THEN 0
        ELSE top

\* the modes Pillow's JPEG encoder writes
JpegModes == {"1", "L", "RGB", "RGBX", "CMYK", "YCbCr"}

\* line 276: img.save(save_path) picks the encoder by the extension of the
\* path, and the JPEG encoder raises OSError for a mode it cannot write
save_raises(mode, ext) ==
    /\ ext \in {<<46, 106, 112, 103>>, <<46, 106, 112, 101, 103>>}
    /\ mode \notin JpegModes

\* Lines 225-279: what the processing leaves in the saved file.  "upload" is
\* the file as it was uploaded: Image.open, or resize for a width below 1,
\* raised before anything was written.  "card" is the picture line 276 wrote,
\* of target_w x target_h pixels: the source scaled to scaled x target_h and
\* pasted at (paste_x, 0) on black, or the window of the source from row top
\* to row bottom.  "truncated" is the file img.save opened for writing, which
\* empties it, when the encoder raised after that.
normalize(image, ext, offset) ==
    LET w == image.w
        h == image.h
        unmodified == [kind |-> "upload", image |-> image]
        new_w == scaled_width(w, h)
        target_h_crop == crop_height(w, h)
        top == crop_top(h, target_h_crop, offset)
    IN  IF ~image.readable THEN unmodified
        ELSE IF w <= h
        THEN IF new_w < 1 THEN unmodified
             ELSE [kind |-> "card", size |-> <<target_w, target_h>>,
                   branch |-> "pad", scaled |-> <<new_w, target_h>>,
                   paste_x |-> (target_w - new_w) \div 2, paste_y |-> 0]
        ELSE IF save_raises(image.mode, ext) THEN [kind |-> "truncated"]
        ELSE [kind |-> "card", size |-> <<target_w, target_h>>,
              branch |-> "crop", left |-> 0, top |-> top, right |-> w,
              bottom |-> top + target_h_crop]

\* The sizes, modes and offsets of the uploads whose normalization the model
\* follows: landscape, square and portrait sources; no offset, small offsets,
\* offsets beyond the source, one that is no int, 10 ** 12 and 10 ** 309
CardSizes ==
    { <<2000, 800>>, <<1000, 900>>, <<1200, 628>>, <<3, 2>>,
      <<400, 400>>, <<283, 283>>, <<300, 600>>, <<1, 1000>>, <<628, 628>> }

CardModes == {"RGB", "RGBA"}

CardOffsets ==
    { << >>, <<48>>, <<53, 48>>, <<45, 53, 48>>, <<49, 48, 48, 48>>, <<45, 49, 48, 48, 48>>, <<120>>,
      <<49>> \o [i \in 1..12 |-> 48], <<49>> \o [i \in 1..309 |-> 48] }

CardFiles ==
    { [filename |-> <<97, 46, 112, 110, 103>>, mimetype |-> <<105, 109, 97, 103, 101, 47, 112, 110, 103>>],
      [filename |-> <<97, 46, 106, 112, 103>>, mimetype |-> <<105, 109, 97, 103, 101, 47, 106, 112, 101, 103>>] }

CardRequests ==
    { [file |-> f, expiry_minutes |-> << >>,
       image |-> Picture(s[1], s[2], m, r), offset_y |-> o] :
         f \in CardFiles, s \in CardSizes, m \in CardModes, r \in BOOLEAN,
         o \in CardOffsets }

--------------------------------------------------------------------------
(* The image requests *)

\* The upload forms the model submits: the file "a.png" (image/png) with
\* expiry_minutes "1" and "0"; "a.txt" (text/plain) without expiry_minutes;
\* no file; "a.png" with expiry_minutes "x"
UploadRequests ==
    { [file |-> [filename |-> <<97, 46, 112, 110, 103>>, mimetype |-> <<105, 109, 97, 103, 101, 47, 112, 110, 103>>], expiry_minutes |-> <<49>>, image |-> PlainImage, offset_y |-> << >>],
      [file |-> [filename |-> <<97, 46, 112, 110, 103>>, mimetype |-> <<105, 109, 97, 103, 101, 47, 112, 110, 103>>], expiry_minutes |-> <<48>>, image |-> PlainImage, offset_y |-> << >>],
      [file |-> [filename |-> <<97, 46, 116, 120, 116>>, mimetype |-> <<116, 101, 120, 116, 47, 112, 108, 97, 105, 110>>], expiry_minutes |-> << >>, image |-> PlainImage, offset_y |-> << >>],
      [file |-> NoFile, expiry_minutes |-> <<49>>, image |-> PlainImage, offset_y |-> << >>],
      [file |-> [filename |-> <<97, 46, 112, 110, 103>>, mimetype |-> <<105, 109, 97, 103, 101, 47, 112, 110, 103>>], expiry_minutes |-> <<120>>, image |-> PlainImage, offset_y |-> << >>] }

NoUpload ==
    [file |-> NoFile, expiry_minutes |-> << >>, image |-> PlainImage,
     offset_y |-> << >>]

\* the ids a view or a delete request may name, and the tokens a delete
\* request may carry ("" is a request without delete_token)
TargetIds == { ImageId(n) : n \in 1..MaxImages }
RequestTokens == { << >> } \cup { DeleteToken(n) : n \in 1..MaxImages }

\* A worker that handles no image request.  rows and swept are the sweep's
\* locals; row is the row the request fetched and now the clock value it
\* tested the row against; sawExpired records whether the row a delete
\* request names existed and had expired when the request arrived; picture
\* is what the request's image processing left in the file it saved.
NoPicture == [kind |-> "none"]

IdleImage ==
    [op |-> "none", pc |-> "idle", req |-> NoUpload, id |-> << >>,
     token |-> << >>, now |-> 0, rows |-> << >>, swept |-> {},
     expires_at |-> NoExpiry, row |-> NoRow, status |-> 0,
     sawExpired |-> FALSE, picture |-> NoPicture]

\* where a request goes on after its sweep; the landing page (upload_page,
\* line 439) is rendered at once
AfterSweep(w) ==
    CASE w.op = "upload" -> [w EXCEPT !.pc = "upload_form"]
      [] w.op = "view" -> [w EXCEPT !.pc = "view_lookup"]
      [] w.op = "delete" -> [w EXCEPT !.pc = "delete_lookup"]
      [] w.op = "grid" -> [w EXCEPT !.pc = "grid_form"]
      [] OTHER -> [w EXCEPT !.pc = "done", !.status = 200]

\* The request arrives and its sweep starts (lines 190-194): the clock is
\* read and the expired rows are selected.  Without such rows the loop and
\* the commit do nothing, and the request goes on.
ImageBegin(p, op, id) ==
    /\ iproc[p].pc = "idle"
    /\ nRequests < MaxRequests
    /\ nRequests' = nRequests + 1
    /\ LET w == [IdleImage EXCEPT
                    !.op = op, !.pc = "sweep", !.id = id,
                    !.rows = ExpiredRows(clock),
                    !.sawExpired =
                        /\ op = "delete"
                        /\ \E r \in ImageRows(id) : IsSweptAt(r.expires_at, clock)]
       IN  iproc' = [iproc EXCEPT ![p] = IF w.rows = << >> THEN AfterSweep(w) ELSE w]
    /\ UNCHANGED <<clock, images, files, nImages, linkVars, denied>>

\* POST /api/upload
UploadBegin(p) == ImageBegin(p, "upload", << >>)

\* GET /i/<image_id>
ViewBegin(p) == \E id \in TargetIds : ImageBegin(p, "view", id)

\* POST /api/images/<image_id>/delete
DeleteBegin(p) == \E id \in TargetIds : ImageBegin(p, "delete", id)

\* GET /upload (lines 436-439)
LandingBegin(p) == ImageBegin(p, "landing", << >>)

\* _cleanup_expired_images, lines 195-200, for the next selected row: the
\* file is removed, and the row's DELETE waits for the commit.  An exception
\* other than FileNotFoundError leaves the function, the DELETEs are never
\* committed and Flask answers 500.
SweepRemove(p) ==
    /\ iproc[p].pc = "sweep"
    /\ iproc[p].rows # << >>
    /\ LET row == Head(iproc[p].rows)
           r == remove_ignoring_missing(files, row.filename)
       IN  /\ files' = r.files
           /\ IF r.raised = "none"
              THEN iproc' = [iproc EXCEPT ![p].rows = Tail(@),
                                          ![p].swept = @ \cup {row}]
              ELSE iproc' = [iproc EXCEPT ![p].pc = "done", ![p].status = 500]
    /\ UNCHANGED <<clock, images, nImages, nRequests, linkVars, denied>>

\* DELETE FROM images WHERE id=? for each of ids
DeleteRowsNone(rows, ids) == rows
DeleteRows(rows, ids) == { r \in rows : r.id \notin ids }

\* _cleanup_expired_images, lines 201-202: the commit makes the DELETEs of
\* the loop take effect
SweepCommit(p) ==
    /\ iproc[p].pc = "sweep"
    /\ iproc[p].rows = << >>
    /\ images' = DeleteRows(images, { r.id : r \in iproc[p].swept })
    /\ iproc' = [iproc EXCEPT ![p] = AfterSweep(iproc[p])]
    /\ UNCHANGED <<clock, files, nImages, nRequests, linkVars, denied>>

\* api_upload, lines 540-548: expires_at of the form field expiry_minutes,
\* read off the clock at time now; ok is FALSE for 'Invalid expiry_minutes'
upload_expiry(raw, now) ==
    IF raw = << >> THEN [ok |-> TRUE, expires_at |-> NoExpiry]
    ELSE IF ~ParseInt(raw).ok THEN [ok |-> FALSE, expires_at |-> NoExpiry]
    ELSE IF ParseInt(raw).value > 0
         THEN [ok |-> TRUE,
               expires_at |-> now + ParseInt(raw).value * SecondsPerMinute]
    ELSE [ok |-> TRUE, expires_at |-> NoExpiry]

\* api_upload, lines 533-551: the form is read; the file must be there,
\* expires_at is computed from the clock, the id and the delete token are
\* drawn.  requests are the forms a client may submit.
UploadFormOf(p, requests) ==
    /\ iproc[p].pc = "upload_form"
    /\ \E req \in requests :
         LET e == upload_expiry(req.expiry_minutes, clock)
         IN  IF req.file.filename = << >> \/ ~e.ok
             THEN /\ iproc' = [iproc EXCEPT ![p].pc = "done", ![p].status = 400,
                                            ![p].req = req]
                  /\ UNCHANGED nImages
             ELSE /\ nImages < MaxImages
                  /\ nImages' = nImages + 1
                  /\ iproc' = [iproc EXCEPT ![p].pc = "upload_save",
                                            ![p].req = req,
                                            ![p].expires_at = e.expires_at,
                                            ![p].id = ImageId(nImages + 1),
                                            ![p].token = DeleteToken(nImages + 1)]
    /\ UNCHANGED <<clock, images, files, nRequests, linkVars, denied>>

UploadForm(p) == UploadFormOf(p, UploadRequests)

CardForm(p) == UploadFormOf(p, CardRequests)

\* _save_uploaded_image_for_image_host, lines 210-279: ValueError for a file
\* that is no image, else the file is written under the name <id><ext> and
\* processed in place
UploadSave(p) ==
    /\ iproc[p].pc = "upload_save"
    /\ IF ~upload_is_valid(iproc[p].req.file)
       THEN /\ iproc' = [iproc EXCEPT ![p].pc = "done", ![p].status = 400]
            /\ UNCHANGED files
       ELSE /\ files' = files \cup {saved_name(iproc[p].id, iproc[p].req.file)}
            /\ iproc' = [iproc EXCEPT
                   ![p].pc = "upload_insert",
                   ![p].picture =
                       normalize(iproc[p].req.image,
                                 lower(splitext_ext(secure_filename(iproc[p].req.file.filename))),
                                 upload_offset(iproc[p].req.offset_y))]
    /\ UNCHANGED <<clock, images, nImages, nRequests, linkVars, denied>>

\* api_upload, lines 570-587: the row is inserted with created_at read off
\* the clock now, and the response carries the id and the delete token
UploadInsert(p) ==
    /\ iproc[p].pc = "upload_insert"
    /\ images' = images \cup
                 { [id |-> iproc[p].id,
                    filename |-> saved_name(iproc[p].id, iproc[p].req.file),
                    created_at |-> clock,
                    expires_at |-> iproc[p].expires_at,
                    delete_token |-> iproc[p].token] }
    /\ iproc' = [iproc EXCEPT ![p].pc = "done", ![p].status = 200, ![p].now = clock]
    /\ UNCHANGED <<clock, files, nImages, nRequests, linkVars, denied>>

\* image_view, lines 599-600, on the fetched row at time now: 200 or 404
view_status(row, now) ==
    IF ~row.found \/ ~is_image_not_expired(row.expires_at, now) THEN 404 ELSE 200

\* image_view, lines 593-606: the row is fetched and its expiry is tested
\* against the clock
ViewLookup(p) ==
    /\ iproc[p].pc = "view_lookup"
    /\ iproc' = [iproc EXCEPT ![p].pc = "done",
                              ![p].row = FetchImage(iproc[p].id),
                              ![p].now = clock,
                              ![p].status = view_status(FetchImage(iproc[p].id), clock)]
    /\ UNCHANGED <<clock, images, files, nImages, nRequests, linkVars, denied>>

\* api_delete_image, lines 612-627: the token is read, 400 without one;
\* then the row is fetched, 404 without one
DeleteLookup(p) ==
    /\ iproc[p].pc = "delete_lookup"
    /\ \E token \in RequestTokens :
         LET row == FetchImage(iproc[p].id)
         IN  iproc' =
               IF token = << >>
               THEN [iproc EXCEPT ![p].pc = "done", ![p].status = 400]
               ELSE IF row.found
               THEN [iproc EXCEPT ![p].pc = "delete_check", ![p].token = token,
                                  ![p].row = row]
               ELSE [iproc EXCEPT ![p].pc = "done", ![p].token = token,
                                  ![p].status = 404]
    /\ UNCHANGED <<clock, images, files, nImages, nRequests, linkVars, denied>>

\* api_delete_image, lines 628-644: what the request does with the fetched
\* row at time now
delete_decision_any_token(row, token, now) == "delete"
delete_decision(row, token, now) ==
    IF DeleteSeesExpired(row.expires_at, now) THEN "delete"
    ELSE IF token # row.delete_token THEN "forbidden"
    ELSE "delete"

\* api_delete_image, lines 628-644: an expired row, or one whose token the
\* request carries, is deleted and the deletion committed; else 403
DeleteCheck(p) ==
    /\ iproc[p].pc = "delete_check"
    /\ IF delete_decision(iproc[p].row, iproc[p].token, clock) = "delete"
       THEN /\ images' = DeleteRows(images, {iproc[p].id})
            /\ iproc' = [iproc EXCEPT ![p].pc = "delete_unlink", ![p].now = clock]
       ELSE /\ iproc' = [iproc EXCEPT ![p].pc = "done", ![p].status = 403,
                                      ![p].now = clock]
            /\ UNCHANGED images
    /\ UNCHANGED <<clock, files, nImages, nRequests, linkVars, denied>>

\* api_delete_image, lines 632-636 and 645-650: the file is removed
DeleteUnlink(p) ==
    /\ iproc[p].pc = "delete_unlink"
    /\ LET r == remove_ignoring_missing(files, iproc[p].row.filename)
       IN  /\ files' = r.files
           /\ iproc' = [iproc EXCEPT ![p].pc = "done",
                                     ![p].status = IF r.raised = "none" THEN 200 ELSE 500]
    /\ UNCHANGED <<clock, images, nImages, nRequests, linkVars, denied>>

\* the response is sent and the worker is free again
ImageEnd(p) ==
    /\ iproc[p].pc = "done"
    /\ iproc' = [iproc EXCEPT ![p] = IdleImage]
    /\ UNCHANGED <<clock, images, files, nImages, nRequests, linkVars, denied>>

\* the files whose removal may be refused at one time
MaxDenied == 1

\* The system starts to refuse the removal of a file of the upload directory
\* (its permissions change, or another process holds it)
Deny ==
    /\ Cardinality(denied) < MaxDenied
    /\ \E f \in files \ denied : denied' = denied \cup {f}
    /\ UNCHANGED <<files, linkVars, imageVars>>

\* time passes
Tick ==
    /\ clock < MaxClock
    /\ clock' = clock + TickStep
    /\ UNCHANGED <<images, files, iproc, nImages, nRequests, linkVars, denied>>

ImageRequest(p) ==
    \/ UploadBegin(p)
    \/ ViewBegin(p)
    \/ DeleteBegin(p)
    \/ LandingBegin(p)
    \/ SweepRemove(p)
    \/ SweepCommit(p)
    \/ UploadForm(p)
    \/ UploadSave(p)
    \/ UploadInsert(p)
    \/ ViewLookup(p)
    \/ DeleteLookup(p)
    \/ DeleteCheck(p)
    \/ DeleteUnlink(p)
    \/ ImageEnd(p)

--------------------------------------------------------------------------
(* POST /api/grid *)

\* target_size of _create_grid_image (line 286)
GridWidth == 1200
GridHeight == 628

\* the least and the greatest number of images of a grid (lines 296, 300)
MinGridImages == 2
MaxGridImages == 5

\* the most files a grid form of the model carries
MaxGridFiles == 6

\* (cols, rows) of lines 305-312
grid_layout(num_images) ==
    IF num_images = 2 THEN [cols |-> 2, rows |-> 1]
    ELSE IF num_images = 3 THEN [cols |-> 3, rows |-> 1]
    ELSE IF num_images = 4 THEN [cols |-> 2, rows |-> 2]
    ELSE [cols |-> 3, rows |-> 2]

\* (col, row) of image idx, lines 328-340
grid_position_by_rows(idx, num_images, cols) ==
    [col |-> idx % cols, row |-> idx \div cols]
grid_position(idx, num_images, cols) ==
    IF num_images = 5
    THEN IF idx < 3 THEN [col |-> idx, row |-> 0]
         ELSE [col |-> idx - 3 + 1, row |-> 1]
    ELSE [col |-> idx % cols, row |-> idx \div cols]

\* image_files[:5]
FirstImages(image_files, k) ==
    IF Len(image_files) > k THEN SubSeq(image_files, 1, k) ELSE image_files

\* _create_grid_image (lines 296-346) without overlay text: ok is FALSE for
\* ValueError; cells lists, for each image pasted, its index, its cell and
\* the place and the size it is pasted at
create_grid_image(image_files) ==
    IF Len(image_files) < MinGridImages
    THEN [ok |-> FALSE, picture |-> NoPicture]
    ELSE LET used == FirstImages(image_files, MaxGridImages)
             num_images == Len(used)
             cols == grid_layout(num_images).cols
             rows == grid_layout(num_images).rows
             cell_w == GridWidth \div cols
             cell_h == GridHeight \div rows
         IN  [ok |-> TRUE,
              picture |->
                [kind |-> "grid",
                 size |-> <<GridWidth, GridHeight>>,
                 cells |->
                   [i \in 1..num_images |->
                      LET pos == grid_position(i - 1, num_images, cols)
                      IN  [idx |-> i - 1,
                           image |-> used[i].filename,
                           col |-> pos.col, row |-> pos.row,
                           x |-> pos.col * cell_w, y |-> pos.row * cell_h,
                           w |-> cell_w, h |-> cell_h]]]]

\* the k-th image file of a grid form: "a.png", "b.png", ... (image/png)
GridFile(k) ==
    [filename |-> <<96 + k>> \o <<46, 112, 110, 103>>, mimetype |-> <<105, 109, 97, 103, 101, 47, 112, 110, 103>>]

\* a file that is no image: "n.txt" (text/plain)
TextFile == [filename |-> <<110, 46, 116, 120, 116>>, mimetype |-> <<116, 101, 120, 116, 47, 112, 108, 97, 105, 110>>]

\* The grid forms the model submits: 0 to MaxGridFiles image files, and two
\* forms that hold a file which is no image
GridRequests ==
    { [k \in 1..n |-> GridFile(k)] : n \in 0..MaxGridFiles }
    \cup { <<GridFile(1), TextFile, GridFile(3)>>, <<GridFile(1), TextFile>> }

\* the files of a form that lines 460-485 load: those with an allowed image
\* name and an image content type
LoadableFiles(fs) == SelectSeq(fs, upload_is_valid)

\* the extension of the saved grid, lines 494-498
grid_saved_name(stem, fs) ==
    LET ext == splitext_ext(secure_filename(fs[1].filename))
    IN  stem \o lower(IF ext = << >> THEN <<46, 106, 112, 103>> ELSE ext)

\* POST /api/grid: the request arrives and sweeps (line 444)
GridBegin(p) == ImageBegin(p, "grid", << >>)

\* api_create_grid, lines 445-455: the form is read; fewer than 2 files and
\* more than 5 files are answered 400; else the id and the token are drawn
GridForm(p) ==
    /\ iproc[p].pc = "grid_form"
    /\ \E fs \in GridRequests :
         IF Len(fs) < MinGridImages \/ Len(fs) > MaxGridImages
         THEN /\ iproc' = [iproc EXCEPT ![p].pc = "done", ![p].status = 400,
                                        ![p].req = [files |-> fs]]
              /\ UNCHANGED nImages
         ELSE /\ nImages < MaxImages
              /\ nImages' = nImages + 1
              /\ iproc' = [iproc EXCEPT ![p].pc = "grid_compose",
                                        ![p].req = [files |-> fs],
                                        ![p].id = ImageId(nImages + 1),
                                        ![p].token = DeleteToken(nImages + 1)]
    /\ UNCHANGED <<clock, images, files, nRequests, linkVars, denied>>

\* api_create_grid, lines 457-500: the loadable files are opened, fewer than
\* 2 of them are answered 400, else the grid is composed and saved
GridCompose(p) ==
    /\ iproc[p].pc = "grid_compose"
    /\ LET pil_images == LoadableFiles(iproc[p].req.files)
           made == create_grid_image(pil_images)
       IN  IF Len(pil_images) < 2 \/ ~made.ok
           THEN /\ iproc' = [iproc EXCEPT ![p].pc = "done", ![p].status = 400]
                /\ UNCHANGED files
           ELSE /\ files' = files \cup {grid_saved_name(iproc[p].id, iproc[p].req.files)}
                /\ iproc' = [iproc EXCEPT ![p].pc = "grid_insert",
                                          ![p].picture = made.picture]
    /\ UNCHANGED <<clock, images, nImages, nRequests, linkVars, denied>>

\* api_create_grid, lines 502-522: the row of the grid is inserted, without
\* expires_at, and the response carries the id and the delete token
GridInsert(p) ==
    /\ iproc[p].pc = "grid_insert"
    /\ images' = images \cup
                 { [id |-> iproc[p].id,
                    filename |-> grid_saved_name(iproc[p].id, iproc[p].req.files),
                    created_at |-> clock,
                    expires_at |-> NoExpiry,
                    delete_token |-> iproc[p].token] }
    /\ iproc' = [iproc EXCEPT ![p].pc = "done", ![p].status = 200, ![p].now = clock]
    /\ UNCHANGED <<clock, files, nImages, nRequests, linkVars, denied>>

GridRequest(p) ==
    \/ GridBegin(p)
    \/ GridForm(p)
    \/ GridCompose(p)
    \/ GridInsert(p)
    \/ ImageEnd(p)

--------------------------------------------------------------------------
(* The specifications *)

Init ==
    /\ links = {}
    /\ files = {}
    /\ cproc = [p \in Procs |-> IdleCreate]
    /\ nCreates = 0
    /\ issued = << >>
    /\ visit = NoVisit
    /\ clock = 0
    /\ images = {}
    /\ iproc = [p \in Procs |-> IdleImage]
    /\ nImages = 0
    /\ nRequests = 0
    /\ denied = {}

\* Concurrent create requests
NextCreate == \E p \in Procs : Create(p)

SpecCreate == Init /\ [][NextCreate]_vars

\* Create requests of one worker, and visits; a visit is answered in one
\* step, so nothing is lost by letting its response leave before the next step
NextVisit ==
    \/ visit = NoVisit /\ Create(1)
    \/ Visit
    \/ VisitEnd

SpecVisit == Init /\ [][NextVisit]_vars

\* Concurrent image requests while time passes
NextImages ==
    \/ \E p \in Procs : ImageRequest(p)
    \/ Tick

SpecImages == Init /\ [][NextImages]_vars

\* Image requests, one after the other, while time passes and removals are
\* refused
NextDenied ==
    \/ ImageRequest(1)
    \/ Tick
    \/ Deny

SpecDenied == Init /\ [][NextDenied]_vars

\* Links are created and visited; then, beside one stored link, image
\* requests are handled, one after the other, while time passes
CreatesIdle == \A p \in Procs : cproc[p].pc = "idle"

NextSite ==
    \/ /\ nRequests = 0
       /\ clock = 0
       /\ NextVisit
    \/ /\ CreatesIdle
       /\ nCreates = 1
       /\ links # {}
       /\ visit = NoVisit
       /\ \/ ImageRequest(2)
          \/ GridRequest(2)
          \/ Tick

SpecSite == Init /\ [][NextSite]_vars

\* Concurrent image and grid requests while time passes
NextRegistry ==
    \/ \E p \in Procs : ImageRequest(p)
    \/ \E p \in Procs : GridRequest(p)
    \/ Tick

SpecRegistry == Init /\ [][NextRegistry]_vars

\* Concurrent grid requests
NextGrid == \E p \in Procs : GridRequest(p)

SpecGrid == Init /\ [][NextGrid]_vars

\* Uploads of pictures, one after the other
CardUpload(p) ==
    \/ UploadBegin(p)
    \/ CardForm(p)
    \/ UploadSave(p)
    \/ UploadInsert(p)
    \/ ImageEnd(p)

NextCard == CardUpload(1)

SpecCard == Init /\ [][NextCard]_vars

--------------------------------------------------------------------------
(* Claims about visits *)

\* a letter folded to lower case, any other character as it is
FoldCase(c) == IF c \in 65..90 THEN c + 32 ELSE c

\* the header value holds signature sig at some position, letter case aside
HoldsSignature(value, sig) ==
    \E i \in 0..(Len(value) - Len(sig)) :
        \A k \in 1..Len(sig) : FoldCase(value[i + k]) = FoldCase(sig[k])

\* the request's User-Agent holds one of the crawler signatures
HasCrawlerSignature(h) ==
    h.present /\ \E sig \in BotSignatures : HoldsSignature(h.value, sig)

\* the destination_url stored for the slug of a visited path
StoredDestination(path) ==
    (CHOOSE r \in links : r.slug = SubSeq(path, 2, Len(path))).dest_url

DecodedPathHasThai(path) ==
    \E i \in 1..Len(unquote(path)) : unquote(path)[i] \in 3584..3711

\* C2: a visit of /<slug> for a slug the store does not hold is redirected to
\* the upload page when the percent-decoded path holds a Thai character, and
\* answered 404 when it holds none.
C2_UnknownSlugRecovery ==
    (visit # NoVisit /\ MatchesSlugRule(visit.path) /\ ~visit.found) =>
        IF DecodedPathHasThai(visit.path)
        THEN visit.status = 302 /\ visit.location = UploadPageUrl
        ELSE visit.status = 404

--------------------------------------------------------------------------
(* Claims about link creation *)

\* the slug matches [A-Za-z0-9]{6}
IsSixAlnum(s) ==
    /\ Len(s) = 6
    /\ \A i \in 1..Len(s) : (s[i] \in 48..57) \/ (s[i] \in 65..90) \/ (s[i] \in 97..122)

\* C6: every slug a creation returned has exactly 6 characters of
\* [A-Za-z0-9], no two link records share a slug, and no slug was returned
\* by two creations, however the creations of the workers interleave.
C6_SlugsUnique ==
    /\ \A s \in DOMAIN issued : IsSixAlnum(s) /\ issued[s] = 1
    /\ \A r1, r2 \in links : r1.slug = r2.slug => r1 = r2
    /\ \A r \in links : r.slug \in DOMAIN issued
    /\ \A p \in Procs :
         (cproc[p].pc = "done" /\ cproc[p].status = 200) =>
             cproc[p].slug \in DOMAIN issued
    /\ \A p, q \in Procs :
         (p # q /\ cproc[p].slug # << >>) => cproc[p].slug # cproc[q].slug

\* C6 witness: while one creation has inserted its row and is still running,
\* the creation of the other worker has collided with a stored slug.
C6_Witness ==
    \E p, q \in Procs :
        /\ cproc[p].pc = "inserted"
        /\ cproc[q].pc = "insert"
        /\ cproc[q].attempt >= 1
        /\ Cardinality(links) = 1

\* C7: an insertion makes at most 20 attempts, stops with the first one that
\* succeeds, and after 20 collisions ends with an error that reaches the
\* caller (the response is a 500) without having written to the link store.
C7_AttemptBudget ==
    \A p \in Procs :
        /\ cproc[p].attempt <= 20
        /\ cproc[p].pc = "insert" => ~cproc[p].wrote
        /\ cproc[p].wrote =>
               Cardinality({ r \in links : r.slug = cproc[p].slug }) = 1
        /\ (cproc[p].pc = "insert" /\ cproc[p].attempt = 20) => ENABLED InsertExhausted(p)
        /\ cproc[p].status = 500 =>
               /\ cproc[p].attempt = 20
               /\ ~cproc[p].wrote
               /\ cproc[p].slug = << >>

\* C7 witness: a creation has collided 20 times and ended with the error.
C7_Witness ==
    \E p \in Procs :
        /\ cproc[p].pc = "done"
        /\ cproc[p].status = 500
        /\ cproc[p].attempt = 20
        /\ links # {}

\* C8, for create-link: a create request that is answered with a 400-class
\* status has written nothing, so no row of the link store stems from it.
C8_RejectedCreateWritesNothing ==
    \A p \in Procs :
        (cproc[p].pc = "done" /\ cproc[p].status \in 400..499) =>
            /\ ~cproc[p].wrote
            /\ LinkRows(cproc[p].slug) = {}

--------------------------------------------------------------------------
(* Claims about the image registry *)

\* what a view of id is answered when it runs from start to end now
ViewNow(id) == view_status(FetchImage(id), clock)

\* no other worker handles a delete request for the id of worker p
OnlyDeleteOfItsId(p) ==
    \A q \in Procs \ {p} :
        ~(iproc[q].op = "delete" /\ iproc[q].id = iproc[p].id)

\* C3: a delete call that carries a token and names a record whose
\* expires_at had passed when the call arrived reports success.
C3_ExpiredDeleteSucceeds ==
    \A p \in Procs :
        ( /\ iproc[p].op = "delete"
          /\ iproc[p].pc = "done"
          /\ iproc[p].sawExpired
          /\ iproc[p].status # 400
          /\ OnlyDeleteOfItsId(p) ) => iproc[p].status = 200

\* worker p takes the last step of an upload with expiry_minutes "1"
UploadReturns(p) ==
    /\ iproc[p].pc = "upload_insert"
    /\ iproc'[p].pc = "done"
    /\ iproc'[p].status = 200
    /\ iproc[p].req.expiry_minutes = <<49>>

\* C4: a view returns the page only for a record that exists and whose
\* expires_at is unset or later than the clock; a record uploaded with
\* expiry_minutes=1 is viewable right after the upload returns; and a view at
\* a time now >= created_at + 60 of such a record is answered 404.
C4_ViewableUntilExpiry ==
    [][ \A p \in Procs :
          /\ UploadReturns(p) => ViewNow(iproc[p].id)' = 200
          /\ ( /\ iproc[p].pc = "view_lookup"
               /\ iproc'[p].pc = "done" ) =>
                 /\ iproc'[p].status = 200 =>
                      \E r \in images :
                          /\ r.id = iproc[p].id
                          /\ (r.expires_at = NoExpiry \/ r.expires_at > clock)
                 /\ (\E r \in images :
                          /\ r.id = iproc[p].id
                          /\ r.expires_at # NoExpiry
                          /\ clock >= r.created_at + 60) => iproc'[p].status = 404
      ]_vars

\* C9: every image record whose expires_at is set has expires_at strictly
\* greater than its created_at.
C9_ExpiresAfterCreated ==
    \A r \in images : r.expires_at # NoExpiry => r.expires_at > r.created_at

\* worker p tests the row it fetched, which has not expired, against a token
\* that is not the row's
WrongTokenCheck(p) ==
    /\ iproc[p].pc = "delete_check"
    /\ iproc'[p].pc # "delete_check"
    /\ iproc[p].token # iproc[p].row.delete_token
    /\ (iproc[p].row.expires_at = NoExpiry \/ iproc[p].row.expires_at > clock)

\* C5: a delete call with a wrong token on an existing record that has not
\* expired is answered 403 and changes neither the registry nor the upload
\* directory; the record, if no other request has removed it, is still there
\* with its file, and a view of it right afterwards succeeds.
C5_WrongTokenForbidden ==
    [][ \A p \in Procs :
          WrongTokenCheck(p) =>
              /\ iproc'[p].pc = "done"
              /\ iproc'[p].status = 403
              /\ images' = images
              /\ files' = files
              /\ ImageRows(iproc[p].id) # {} =>
                    /\ iproc[p].row.filename \in files'
                    /\ ViewNow(iproc[p].id)' = 200
      ]_vars

\* C5 witness: a delete call has been answered 403 and the record it named
\* is still in the registry.
C5_Witness ==
    \E p \in Procs :
        /\ iproc[p].op = "delete"
        /\ iproc[p].pc = "done"
        /\ iproc[p].status = 403
        /\ ImageRows(iproc[p].id) # {}
        /\ iproc[p].token # << >>

\* C10: sweeps that act on the same expired records, one after the other or
\* interleaved, never end in an error; the removal of a file that is already
\* gone changes nothing; and when a sweep has committed, none of the records
\* it selected and none of their files remain.
C10_SweepIdempotent ==
    [][ \A p \in Procs :
          /\ iproc'[p].status # 500
          /\ ( /\ iproc[p].pc = "sweep"
               /\ iproc[p].rows # << >>
               /\ iproc'[p] # iproc[p] ) =>
                 /\ Head(iproc[p].rows).filename \notin files'
                 /\ Head(iproc[p].rows).filename \notin files => files' = files
                 /\ iproc'[p].pc = "sweep"
                 /\ iproc'[p].rows = Tail(iproc[p].rows)
          /\ ( /\ iproc[p].pc = "sweep"
               /\ iproc[p].rows = << >>
               /\ iproc'[p] # iproc[p] ) =>
                 /\ iproc[p].swept # {}
                 /\ \A r \in iproc[p].swept :
                        /\ ImageRows(r.id)' = {}
                        /\ r.filename \notin files'
                 /\ \A r \in images :
                        r.id \notin { s.id : s \in iproc[p].swept } => r \in images'
      ]_vars

\* C10 witness: two sweeps have selected the same expired record, and one is
\* about to remove the file that the other has removed already.
C10_Witness ==
    \E p, q \in Procs :
        /\ p # q
        /\ iproc[p].pc = "sweep"
        /\ iproc[q].pc = "sweep"
        /\ iproc[q].rows # << >>
        /\ Head(iproc[q].rows) \in iproc[p].swept
        /\ Head(iproc[q].rows).filename \notin files

--------------------------------------------------------------------------
(* Claims about the destruction of image records *)

\* worker p takes the last step of a delete call that reports success
DeleteSucceeds(p) ==
    /\ iproc[p].pc = "delete_unlink"
    /\ iproc'[p].pc = "done"
    /\ iproc'[p].status = 200

\* worker p commits its sweep
SweepCommits(p) ==
    /\ iproc[p].pc = "sweep"
    /\ iproc[p].rows = << >>
    /\ iproc'[p] # iproc[p]

\* C11: when a successful delete call or a sweep has destroyed an image
\* record, neither the record nor its backing file exists once the operation
\* has finished, and a backing file that is already absent does not make the
\* operation fail.
C11_RecordAndFileRemovedTogether ==
    [][ \A p \in Procs :
          /\ DeleteSucceeds(p) =>
                 /\ ImageRows(iproc[p].id)' = {}
                 /\ iproc[p].row.filename \notin files'
          /\ ( /\ iproc[p].pc = "delete_unlink"
               /\ iproc'[p] # iproc[p]
               /\ iproc[p].row.filename \notin files ) =>
                 /\ DeleteSucceeds(p)
                 /\ files' = files
          /\ SweepCommits(p) =>
                 \A r \in iproc[p].swept :
                     /\ ImageRows(r.id)' = {}
                     /\ r.filename \notin files'
          /\ ( /\ iproc[p].pc = "sweep"
               /\ iproc[p].rows # << >>
               /\ iproc'[p] # iproc[p]
               /\ Head(iproc[p].rows).filename \notin files ) =>
                 /\ iproc'[p].pc = "sweep"
                 /\ Head(iproc[p].rows) \in iproc'[p].swept
      ]_vars

\* C11 witness: a delete call has reported success for a record whose file a
\* concurrent sweep has removed as well, so that one of the two found the
\* file already absent.
C11_Witness ==
    \E p, q \in Procs :
        /\ p # q
        /\ iproc[p].op = "delete"
        /\ iproc[p].pc = "done"
        /\ iproc[p].status = 200
        /\ ImageRows(iproc[p].id) = {}
        /\ iproc[p].row.filename \notin files
        /\ iproc[q].pc = "sweep"
        /\ \E r \in iproc[q].swept : r.id = iproc[p].id

--------------------------------------------------------------------------
(* Claims about grids *)

\* worker p takes the last step of a grid request
GridReturns(p) ==
    /\ iproc[p].pc \in {"grid_form", "grid_compose", "grid_insert"}
    /\ iproc'[p].pc = "done"

\* every file of the form is an image file
AllImages(fs) == \A i \in 1..Len(fs) : fs[i].mimetype = <<105, 109, 97, 103, 101, 47, 112, 110, 103>>

\* the images a composed grid shows, in the order of their cells
ImagesShown(picture) == [i \in 1..Len(picture.cells) |-> picture.cells[i].image]

\* the names of the first k files of a form
FirstNames(fs, k) == [i \in 1..k |-> fs[i].filename]

\* C12: a grid request with n input images is a validation error that
\* creates no image record when n < 2; for n > 5 a grid of exactly the first
\* 5 images is produced and recorded; for 2 <= n <= 5 all n images are used.
C12_GridImageCount ==
    [][ \A p \in Procs :
          ( GridReturns(p) /\ AllImages(iproc'[p].req.files) ) =>
              LET fs == iproc'[p].req.files
                  n == Len(fs)
                  used == IF n > 5 THEN 5 ELSE n
              IN  IF n < 2
                  THEN /\ iproc'[p].status = 400
                       /\ images' = images
                  ELSE /\ iproc'[p].status = 200
                       /\ iproc'[p].picture.kind = "grid"
                       /\ ImagesShown(iproc'[p].picture) = FirstNames(fs, used)
                       /\ \E r \in images' : r.id = iproc'[p].id
      ]_vars

\* the layout table: the columns and rows of a grid of n images
TableCols(n) == IF n = 2 THEN 2 ELSE IF n = 3 THEN 3 ELSE IF n = 4 THEN 2 ELSE 3
TableRows(n) == IF n \in {2, 3} THEN 1 ELSE 2

\* C13: in a composed grid of n images, n in 2..5, image i is in column
\* i mod cols, row i div cols for n = 2, 3, 4 with (cols, rows) = (2,1), (3,1),
\* (2,2); for n = 5 images 0-2 are in row 0, columns 0-2, and images 3-4 in
\* row 1, columns 1-2, so that row 1 column 0 stays empty.  The cells are
\* pairwise distinct, each of size (1200 div cols) x (628 div rows), pasted at
\* (col*cell_w, row*cell_h) and inside the 1200x628 canvas.
C13_GridLayout ==
    \A p \in Procs :
        iproc[p].picture.kind = "grid" =>
            LET cells == iproc[p].picture.cells
                n == Len(cells)
                cols == TableCols(n)
                rows == TableRows(n)
            IN  /\ n \in 2..5
                /\ iproc[p].picture.size = <<1200, 628>>
                /\ \A i \in 1..n :
                     LET c == cells[i]
                     IN  /\ c.idx = i - 1
                         /\ n \in {2, 3, 4} =>
                                /\ c.col = (i - 1) % cols
                                /\ c.row = (i - 1) \div cols
                         /\ (n = 5 /\ i - 1 <= 2) => (c.col = i - 1 /\ c.row = 0)
                         /\ (n = 5 /\ i - 1 >= 3) => (c.col = i - 3 /\ c.row = 1)
                         /\ c.w = 1200 \div cols
                         /\ c.h = 628 \div rows
                         /\ c.x = c.col * c.w
                         /\ c.y = c.row * c.h
                         /\ c.col \in 0..(cols - 1)
                         /\ c.row \in 0..(rows - 1)
                         /\ c.x >= 0 /\ c.x + c.w <= 1200
                         /\ c.y >= 0 /\ c.y + c.h <= 628
                /\ \A i, j \in 1..n :
                     i # j => <<cells[i].col, cells[i].row>> # <<cells[j].col, cells[j].row>>
                /\ n = 5 => \A i \in 1..n : <<cells[i].col, cells[i].row>> # <<0, 1>>

\* C13 witness: a grid of 5 images has been composed and recorded.
C13_Witness ==
    \E p \in Procs :
        /\ iproc[p].op = "grid"
        /\ iproc[p].pc = "done"
        /\ iproc[p].status = 200
        /\ iproc[p].picture.kind = "grid"
        /\ Len(iproc[p].picture.cells) = 5

--------------------------------------------------------------------------
(* Claims about the metadata page *)

\* the image_ref stored for the slug of a visited path
StoredImageRef(path) ==
    (CHOOSE r \in links : r.slug = SubSeq(path, 2, Len(path))).img_url

\* url begins with pre
BeginsWith(url, pre) ==
    Len(url) >= Len(pre) /\ \A i \in 1..Len(pre) : url[i] = pre[i]

\* url is absolute: it begins with "http://" or "https://"
IsAbsoluteUrl(url) ==
    \/ BeginsWith(url, <<104, 116, 116, 112, 58, 47, 47>>)
    \/ BeginsWith(url, <<104, 116, 116, 112, 115, 58, 47, 47>>)

\* the create request that stored the record of the visited path has ended
CreatorHasEnded(path) ==
    \A p \in Procs : cproc[p].slug # SubSeq(path, 2, Len(path))

\* C14: the image URL of the metadata page of every link record that a
\* create request has stored (the request having ended) is absolute: an
\* image_ref that is absolute is emitted untouched, one that begins with "/"
\* is prefixed with the request's scheme and host, any other one with the
\* site root.
C14_MetadataImageAbsolute ==
    ( /\ visit # NoVisit
      /\ visit.found
      /\ visit.handler = "meta"
      /\ CreatorHasEnded(visit.path) ) =>
        LET ref == StoredImageRef(visit.path)
        IN  /\ IsAbsoluteUrl(visit.img)
            /\ IsAbsoluteUrl(ref) => visit.img = ref
            /\ (~IsAbsoluteUrl(ref) /\ BeginsWith(ref, <<47>>)) =>
                   visit.img = <<104, 116, 116, 112, 58, 47, 47, 104>> \o ref
            /\ (~IsAbsoluteUrl(ref) /\ ~BeginsWith(ref, <<47>>)) =>
                   visit.img = <<104, 116, 116, 112, 58, 47, 47, 104, 47>> \o ref

--------------------------------------------------------------------------
(* Claims about card normalization *)

\* worker p has saved and processed the file of an upload
HasProcessed(p) ==
    /\ iproc[p].op = "upload"
    /\ iproc[p].pc \in {"upload_insert", "done"}
    /\ iproc[p].picture # NoPicture

\* the upload of worker p has been answered 200 and its record is stored
UploadSucceeded(p) ==
    /\ iproc[p].status = 200
    /\ \E r \in images :
         /\ r.id = iproc[p].id
         /\ r.filename = saved_name(iproc[p].id, iproc[p].req.file)

\* C15, without what it says of the file: an upload whose normalization wrote
\* no card still succeeds, and its record is created.
NormalizationFailureKeepsRequest ==
    \A p \in Procs :
        (HasProcessed(p) /\ iproc[p].picture.kind # "card" /\ iproc[p].pc = "done")
            => UploadSucceeded(p)

\* C15: a failure at any step of the normalization of an upload never fails
\* the upload: the request succeeds, its image record is created, and the
\* file kept on disk is the uploaded file, unmodified.
C15_NormalizationFailureKeepsUpload ==
    \A p \in Procs :
        (HasProcessed(p) /\ iproc[p].picture.kind # "card") =>
            /\ iproc[p].picture = [kind |-> "upload", image |-> iproc[p].req.image]
            /\ iproc[p].pc = "done" => UploadSucceeded(p)

\* worker p has written the card of a readable source of w x h pixels by
\* cropping
HasCropped(p, w, h) ==
    /\ HasProcessed(p)
    /\ iproc[p].req.image = Picture(w, h, iproc[p].req.image.mode, TRUE)
    /\ iproc[p].picture.kind = "card"
    /\ iproc[p].picture.branch = "crop"

\* C16 as stated: the card of a 2000x800 source is resized from a window
\* 2000 wide and floor(2000/1.91) = 1047 high.
C16_CropsWidthByRatio ==
    \A p \in Procs :
        HasCropped(p, 2000, 800) =>
            /\ iproc[p].picture.right - iproc[p].picture.left = 2000
            /\ iproc[p].picture.bottom - iproc[p].picture.top = (100 * 2000) \div 191
            /\ iproc[p].picture.size = <<1200, 628>>

\* C16, amended: the card of a 2000x800 source is resized to 1200x628 from a
\* window 2000 wide and min(floor(2000/1.91), 800) = 800 high, which is the
\* whole source.
C16_CropsWholeSource ==
    \A p \in Procs :
        HasCropped(p, 2000, 800) =>
            /\ iproc[p].picture.left = 0
            /\ iproc[p].picture.right = 2000
            /\ iproc[p].picture.top = 0
            /\ iproc[p].picture.bottom = 800
            /\ (100 * 2000) \div 191 = 1047
            /\ iproc[p].picture.size = <<1200, 628>>

C16_Witness ==
    \E p \in Procs : HasCropped(p, 2000, 800) /\ iproc[p].pc = "done"

\* the form field raw holds a positive int
IsPositiveOffset(raw) ==
    /\ raw # << >>
    /\ ParseLongInt(raw).ok
    /\ ~ParseLongInt(raw).negative
    /\ ParseLongInt(raw).digits # << >>

\* a < b for the positive ints of two form fields
OffsetLess(a, b) ==
    LET x == ParseLongInt(a).digits
        y == ParseLongInt(b).digits
    IN  \/ Len(x) < Len(y)
        \/ Len(x) = Len(y) /\ x # y /\ DigitsAtLeast(y, x)

\* The crop window of every card cropped from a landscape source lies inside
\* the source and has the height min(floor(w/1.91), h); it is centred when
\* the request has no offset; and no larger positive offset among offsets
\* gives a window whose top is further down.
CropWindowLaw(offsets) ==
    \A p \in Procs :
        ( /\ HasProcessed(p)
          /\ iproc[p].picture.kind = "card"
          /\ iproc[p].picture.branch = "crop" ) =>
            LET w == iproc[p].req.image.w
                h == iproc[p].req.image.h
                raw == iproc[p].req.offset_y
                floor_ratio == (100 * w) \div 191
                height == IF floor_ratio < h THEN floor_ratio ELSE h
                top == iproc[p].picture.top
            IN  /\ w > h
                /\ 0 <= top
                /\ iproc[p].picture.bottom = top + height
                /\ top + height <= h
                /\ ~upload_offset(raw).given => top = (h - height) \div 2
                /\ \A larger \in offsets :
                       ( /\ raw \in offsets
                         /\ IsPositiveOffset(raw)
                         /\ IsPositiveOffset(larger)
                         /\ OffsetLess(raw, larger) ) =>
                           crop_top(h, height, upload_offset(larger)) <= top

\* C17, for the offsets a double holds
CropWindowLawOfFloats ==
    CropWindowLaw({ o \in CardOffsets : ~float_overflows(ParseLongInt(o)) })

\* C17: for every landscape source and every integer vertical offset the crop
\* window satisfies 0 <= top and top + crop_height <= source_height with
\* crop_height = min(floor(width/1.91), source_height); without an offset the
\* window is vertically centred; a larger positive offset never moves the
\* window's top downward.
C17_CropWindowInsideAndMonotone == CropWindowLaw(CardOffsets)

\* C18: the card of a square or portrait source (width <= height) is exactly
\* 1200x628: the source is scaled to height 628 and width
\* floor(width*628/height) and pasted at x = floor((1200 - scaled_width)/2),
\* y = 0 on black, so that the left and the right padding differ by at most
\* one pixel, and are 286 pixels each for a 400x400 source.
C18_PortraitPadded ==
    \A p \in Procs :
        ( /\ HasProcessed(p)
          /\ iproc[p].req.image.readable
          /\ iproc[p].req.image.w <= iproc[p].req.image.h ) =>
            LET w == iproc[p].req.image.w
                h == iproc[p].req.image.h
                card == iproc[p].picture
                left_pad == card.paste_x
                right_pad == 1200 - card.paste_x - card.scaled[1]
            IN  /\ card.kind = "card"
                /\ card.branch = "pad"
                /\ card.size = <<1200, 628>>
                /\ card.scaled = <<(w * 628) \div h, 628>>
                /\ card.paste_x = (1200 - card.scaled[1]) \div 2
                /\ card.paste_y = 0
                /\ right_pad - left_pad \in {0, 1}
                /\ (w = 400 /\ h = 400) => (left_pad = 286 /\ right_pad = 286)

\* C18 for the sources whose scaled width the doubles of line 240 give
\* exactly and at least 1
PortraitPaddedWhenExact ==
    \A p \in Procs :
        ( /\ HasProcessed(p)
          /\ iproc[p].req.image.readable
          /\ iproc[p].req.image.w <= iproc[p].req.image.h
          /\ iproc[p].req.image \notin
                 { Picture(283, 283, m, TRUE) : m \in CardModes }
                 \cup { Picture(1, 1000, m, TRUE) : m \in CardModes } ) =>
            LET w == iproc[p].req.image.w
                h == iproc[p].req.image.h
                card == iproc[p].picture
            IN  /\ card.kind = "card"
                /\ card.size = <<1200, 628>>
                /\ card.scaled = <<(w * 628) \div h, 628>>
                /\ card.paste_x = (1200 - card.scaled[1]) \div 2
                /\ card.paste_y = 0
                /\ (w = 400 /\ h = 400) => card.paste_x = 286 /\ card.scaled[1] = 628

--------------------------------------------------------------------------
(* Claims about a sweep that meets an error *)

\* the rows the sweep of worker p selected: those it has handled and those
\* it has still to handle
SelectedRows(p) == iproc[p].swept \cup { iproc[p].rows[i] : i \in 1..Len(iproc[p].rows) }

\* worker p leaves its sweep in this step
SweepLeaves(p) == iproc[p].pc = "sweep" /\ iproc'[p].pc # "sweep"

\* when a sweep is left, the file and the record of row are gone
RemovedAfterSweep(row) ==
    /\ row.filename \notin files'
    /\ \A r \in images' : r.id # row.id

\* A sweep that meets no refused removal removes every record it selected,
\* and the operation that invoked it proceeds.
SweepWithoutErrorCompletes ==
    [][\A p \in Procs :
          ( /\ SweepLeaves(p)
            /\ \A row \in SelectedRows(p) : row.filename \notin denied ) =>
              /\ iproc'[p].status # 500
              /\ \A row \in SelectedRows(p) : RemovedAfterSweep(row)]_vars

\* C19: the sweep continues past a per-record error: if removing the file of
\* one expired record fails with an error other than file-not-found, every
\* other expired record the sweep selected is still removed, file and
\* record, and the operation that invoked the sweep proceeds.
C19_SweepContinuesPastError ==
    [][\A p \in Procs :
          SweepLeaves(p) =>
              /\ iproc'[p].status # 500
              /\ \A row \in SelectedRows(p) :
                     row.filename \notin denied => RemovedAfterSweep(row)]_vars

--------------------------------------------------------------------------
(* Claims about the life of link records *)

\* worker p stores the URL of the file its create request uploaded, in the
\* record of slug that the request inserted
StoresUploadedImage(p, slug) ==
    /\ cproc[p].pc = "saved"
    /\ cproc'[p].pc = "done"
    /\ cproc[p].slug = slug
    /\ cproc[p].wrote
    /\ HasFile(cproc[p].req)

\* C20: a link record, once inserted, is never removed, and its slug and
\* destination_url never change; its image_ref is changed at most once, only
\* by the create request that inserted it and only when that request carried
\* an uploaded image file, so that the value replaced is the one the record
\* was inserted with; no step of a visit or of an image request (upload,
\* grid, view, delete, sweep) modifies the link store.
C20_LinkRecordsPersist ==
    [][ /\ \A r \in links :
             \E kept \in links' :
                 /\ kept.slug = r.slug
                 /\ kept.dest_url = r.dest_url
                 /\ kept.title = r.title
                 /\ kept.img_url # r.img_url =>
                        \E p \in Procs :
                            /\ StoresUploadedImage(p, r.slug)
                            /\ r.img_url = cproc[p].req.img_url
        /\ Cardinality(links') >= Cardinality(links)
        /\ links' # links =>
               /\ cproc' # cproc
               /\ visit' = visit
               /\ iproc' = iproc ]_vars

C20_Witness ==
    /\ \E r \in links : r.img_url = static_url(r.slug \o <<46, 112, 110, 103>>)
    /\ \E p \in Procs : iproc[p].op = "delete" /\ iproc[p].status = 200

--------------------------------------------------------------------------
(* Claims about concurrent delete requests *)

\* worker p has answered a delete request for id with success
DeleteReported(p, id) ==
    /\ iproc[p].op = "delete"
    /\ iproc[p].pc = "done"
    /\ iproc[p].id = id
    /\ iproc[p].status = 200

\* A delete request whose lookup comes after the record was removed reports
\* NotFound.
DeleteAfterRemovalNotFound ==
    [][\A p \in Procs :
          ( /\ iproc[p].pc = "delete_lookup"
            /\ iproc'[p].pc # "delete_lookup"
            /\ ~FetchImage(iproc[p].id).found
            /\ iproc'[p].status # 400 ) => iproc'[p].status = 404]_vars

\* C21: for one image id at most one delete request reports success, also
\* when several delete requests are handled concurrently and interleave
\* between the lookup of the record and its removal: two requests for one id
\* that have both been answered have not both been answered with success.
C21_OneDeleteSucceeds ==
    \A id \in TargetIds :
        \A p, q \in Procs :
            (p # q /\ DeleteReported(p, id)) => ~DeleteReported(q, id)

--------------------------------------------------------------------------
(* Claims about records and their files *)

\* the record r is in the registry and has not expired
IsLive(r) == r \in images /\ is_image_not_expired(r.expires_at, clock)

\* A view that is answered 200 names a record whose file is on disk when the
\* answer is made.
ViewSuccessHasFile ==
    [][\A p \in Procs :
          ( /\ iproc[p].pc = "view_lookup"
            /\ iproc'[p].pc = "done"
            /\ iproc'[p].status = 200 ) =>
              iproc'[p].row.filename \in files']_vars

\* C22: in every reachable state, under any interleaving of upload, grid,
\* view, delete and sweep, an image record that is present in the registry
\* and has not expired has its backing file on disk.
C22_LiveRecordHasFile ==
    \A r \in images : IsLive(r) => r.filename \in files

\* a sweep has removed the file of an expired record, a delete request has
\* removed a record and its file, and a live record of a grid is stored
C22_Witness ==
    /\ \E r \in images : IsLive(r) /\ r.expires_at = NoExpiry
    /\ \E r \in images : ~IsLive(r) /\ r.filename \notin files
    /\ \E p \in Procs : iproc[p].pc = "sweep" /\ iproc[p].swept # {}
    /\ \E p \in Procs : iproc[p].op = "grid" /\ iproc[p].status = 200

====
